---- MODULE Spec2Model ----
(***************************************************************************)
(* Layout model of nnetplot: Layer geometry (node centers, rectangle,      *)
(* connection points), the two alignment functions, the four connector     *)
(* enumerators and the drawing methods.                                    *)
(*                                                                         *)
(* Numbers.  The program computes with Python floats; the model computes   *)
(* with exact fixed-point numbers: a length v is the integer 200 * v, so   *)
(* the default radius 0.2 is 40 and the default spacing 0.1 is 20.  A      *)
(* product of two such numbers is Mul.  All inputs are drawn from sets     *)
(* that keep every product exact (ExactArithmetic), so the model is the    *)
(* real-number reading of the code: float rounding is not modelled.        *)
(***************************************************************************)
EXTENDS Integers, Sequences, FiniteSets, TLC

VARIABLES
    layers,     \* layer id -> the fields of that Layer object
    built,      \* layer id -> the fields the Layer was constructed with
    call,       \* the last call made: its name and its arguments
    ret,        \* what the last call returned (<<>> for None)
    plotted,    \* what the last call added to the matplotlib axis, in order
    raised      \* "none", or the exception the last call ended with

vars == <<layers, built, call, ret, plotted, raised>>

(***************************************************************************)
(* Bounds of the model.                                                    *)
(***************************************************************************)
MaxRows == 2
MaxCols == 2
\* rows of the layers that are connected: 2 x 1 and 3 x 1 nodes give 6 lines
MaxConnectRows == 3
\* alignments are only followed while every anchor stays within
\* 0.3 + 0.1 * MaxAnchor (60 + 20 * MaxAnchor units) of the origin
MaxAnchor == 1

Abs(n) == IF n < 0 THEN -n ELSE n

\* a * b of two fixed-point numbers
Mul(a, b) == (a * b) \div 200

(***************************************************************************)
(* activations.py                                                          *)
(***************************************************************************)
\* the values Layer(activation=...) is given: the three names, a name that
\* is not recognised, None (the default), and a user's callable
ActivationArgs == {"relu", "sigmoid", "linear", "tanh", "None", "custom_fn"}

\* callable(s): the three module functions and the user's function
Callable(s) == s \in {"relu_fn", "sigmoid_fn", "linear_fn", "custom_fn"}

dispacth_activation(s) ==
    IF Callable(s) THEN s
    ELSE IF s = "relu" THEN "relu_fn"
    ELSE IF s = "sigmoid" THEN "sigmoid_fn"
    ELSE IF s = "linear" THEN "linear_fn"
    ELSE "None"

(***************************************************************************)
(* Layer                                                                   *)
(***************************************************************************)
\* Layer.__init__
NewLayer(rows, columns, activation, special, xanchor, yanchor, radius, vspace, hspace) ==
    [rows |-> rows, columns |-> columns,
     activation_str |-> activation,
     activation |-> dispacth_activation(activation),
     special |-> special,
     xanchor |-> xanchor, yanchor |-> yanchor,
     radius |-> radius, vspace |-> vspace, hspace |-> hspace]

\* Layer.node_centers: the generator's loop, one step per call of the
\* operator; (x, y) are the generator's local variables
RECURSIVE NodeCentersLoop(_, _, _, _, _)
NodeCentersLoop(L, col_idx, row_idx, x, y) ==
    IF col_idx >= L.columns THEN <<>>
    ELSE IF row_idx >= L.rows
         THEN NodeCentersLoop(L, col_idx + 1, 0,
                              x + (2 * L.radius + L.hspace), L.yanchor - L.radius)
         ELSE <<<<x, y>>>> \o
              NodeCentersLoop(L, col_idx, row_idx + 1,
                              x, y - (2 * L.radius + L.vspace))

\* a mutation of node_centers: the nodes start at the anchor itself
node_centers_from_anchor(L) ==
    NodeCentersLoop(L, 0, 0, L.xanchor, L.yanchor)

\* a mutation of node_centers: row-major, all columns of a row first
node_centers_row_major(L) ==
    [i \in 1..(IF L.rows >= 1 /\ L.columns >= 1 THEN L.rows * L.columns ELSE 0) |->
        <<L.xanchor + L.radius + ((i - 1) % L.columns) * (2 * L.radius + L.hspace),
          L.yanchor - L.radius - ((i - 1) \div L.columns) * (2 * L.radius + L.vspace)>>]

node_centers(L) ==
    NodeCentersLoop(L, 0, 0, L.xanchor + L.radius, L.yanchor - L.radius)

\* a mutation of rect_coords: the height is not negated
rect_coords_unsigned(L, pad) ==
    [xy |-> <<L.xanchor - pad, L.yanchor + pad>>,
     width |-> 2 * L.radius * L.columns + 2 * pad + (L.columns - 1) * L.hspace,
     height |-> 2 * L.radius * L.rows + 2 * pad + (L.rows - 1) * L.vspace]

\* Layer.rect_coords
rect_coords(L, pad) ==
    [xy |-> <<L.xanchor - pad, L.yanchor + pad>>,
     width |-> 2 * L.radius * L.columns + 2 * pad + (L.columns - 1) * L.hspace,
     height |-> -(2 * L.radius * L.rows + 2 * pad + (L.rows - 1) * L.vspace)]

\* 0.2 of a length, the factor of the node connection points
ConnectionInset(radius) == Mul(40, radius)

\* Layer.inbound_node_connections
RECURSIVE InboundNodeLoop(_, _, _)
InboundNodeLoop(L, centers, i) ==
    IF i > Len(centers) THEN <<>>
    ELSE <<<<centers[i][1] - ConnectionInset(L.radius), centers[i][2]>>>> \o
         InboundNodeLoop(L, centers, i + 1)

inbound_node_connections(L) == InboundNodeLoop(L, node_centers(L), 1)

\* Layer.outbound_node_connections
RECURSIVE OutboundNodeLoop(_, _, _)
OutboundNodeLoop(L, centers, i) ==
    IF i > Len(centers) THEN <<>>
    ELSE <<<<centers[i][1] + ConnectionInset(L.radius), centers[i][2]>>>> \o
         OutboundNodeLoop(L, centers, i + 1)

outbound_node_connections(L) == OutboundNodeLoop(L, node_centers(L), 1)

\* Layer.inbound_rect_connections
inbound_rect_connections(L, pad, width) ==
    LET coords == rect_coords(L, pad)
        x == coords.xy[1]
        y1 == coords.xy[2] + Mul(100 - width \div 2, coords.height)
        y2 == coords.xy[2] + Mul(100 + width \div 2, coords.height)
    IN  <<<<x, y1>>, <<x, y2>>>>

\* a mutation of outbound_rect_connections: the points of the left edge
outbound_rect_connections_left(L, pad, width) ==
    inbound_rect_connections(L, pad, width)

\* Layer.outbound_rect_connections
outbound_rect_connections(L, pad, width) ==
    LET coords == rect_coords(L, pad)
        x == coords.xy[1] + coords.width
        y1 == coords.xy[2] + Mul(100 - width \div 2, coords.height)
        y2 == coords.xy[2] + Mul(100 + width \div 2, coords.height)
    IN  <<<<x, y1>>, <<x, y2>>>>

(***************************************************************************)
(* Drawing.  The matplotlib axis is the rendering collaborator; what a     *)
(* call hands to it is recorded as a sequence of primitives.               *)
(***************************************************************************)
Circle(x, y, radius) == [kind |-> "circle", x |-> x, y |-> y, radius |-> radius]

Rectangle(coords) == [kind |-> "rect", xy |-> coords.xy,
                      width |-> coords.width, height |-> coords.height]

\* axis.plot([xout, xin], [yout, yin])
Line(p, q) == [kind |-> "line", xs |-> <<p[1], q[1]>>, ys |-> <<p[2], q[2]>>]

\* axis.plot(*make_node_data(...)): the sampled curve, not sampled here
Curve(x, y, radius, activation) ==
    [kind |-> "curve", x |-> x, y |-> y, radius |-> radius, activation |-> activation]

\* make_node_data: activation(xi - x, y, radius) is a call of `activation`,
\* a TypeError when it is None
make_node_data(x, y, radius, activation) ==
    IF activation = "None"
    THEN [raised |-> "TypeError", data |-> <<>>]
    ELSE [raised |-> "none", data |-> <<Curve(x, y, radius, activation)>>]

\* `not self.special` / `if self.special`: Python truthiness of the marker
Truthy(special) == special # "False"

\* Node.__init__
Node(x, y, radius, activation, special) ==
    [x |-> x, y |-> y, radius |-> radius,
     activation |-> dispacth_activation(activation), special |-> special]

\* Node.draw
NodeDraw(node) ==
    LET circle == Circle(node.x, node.y, node.radius)
    IN  IF ~Truthy(node.special)
        THEN LET act == make_node_data(node.x, node.y, node.radius, node.activation)
             IN  [plotted |-> <<circle>> \o act.data, raised |-> act.raised]
        ELSE [plotted |-> <<circle>>, raised |-> "none"]

\* Layer.draw_nodes: one Node per center, drawn in order; an exception ends
\* the loop
RECURSIVE DrawNodesLoop(_, _, _)
DrawNodesLoop(L, centers, i) ==
    IF i > Len(centers) THEN [plotted |-> <<>>, raised |-> "none"]
    ELSE LET one == NodeDraw(Node(centers[i][1], centers[i][2], L.radius,
                                  L.activation, L.special))
         IN  IF one.raised # "none" THEN one
             ELSE LET more == DrawNodesLoop(L, centers, i + 1)
                  IN  [plotted |-> one.plotted \o more.plotted, raised |-> more.raised]

LayerDrawNodes(L) == DrawNodesLoop(L, node_centers(L), 1)

\* Layer.draw_rect
LayerDrawRect(L, pad, draw_activation) ==
    LET coords == rect_coords(L, pad)
        rect == Rectangle(coords)
    IN  IF draw_activation
        THEN LET x == L.xanchor + Mul(100, coords.width) - pad
                 y == L.yanchor + Mul(100, coords.height) + pad
                 act == make_node_data(x, y, L.radius, L.activation)
             IN  [plotted |-> <<rect>> \o act.data, raised |-> act.raised]
        ELSE [plotted |-> <<rect>>, raised |-> "none"]

(***************************************************************************)
(* The connector enumerators: the nested loops over layer0's outbound and  *)
(* layer1's inbound connection points, one axis.plot per inner iteration.  *)
(***************************************************************************)
\* the inner loop: for xin, yin in <layer1's inbound points>: axis.plot(...)
RECURSIVE ConnectInnerLoop(_, _, _)
ConnectInnerLoop(p, ins, j) ==
    IF j > Len(ins) THEN <<>>
    ELSE <<Line(p, ins[j])>> \o ConnectInnerLoop(p, ins, j + 1)

\* the outer loop: for xout, yout in <layer0's outbound points>
RECURSIVE ConnectOuterLoop(_, _, _)
ConnectOuterLoop(outs, ins, i) ==
    IF i > Len(outs) THEN <<>>
    ELSE ConnectInnerLoop(outs[i], ins, 1) \o ConnectOuterLoop(outs, ins, i + 1)

\* a mutation of connect_lines: the points paired positionally, as zip does
connect_lines_zip(outs, ins) ==
    [i \in 1..(IF Len(outs) < Len(ins) THEN Len(outs) ELSE Len(ins)) |->
        Line(outs[i], ins[i])]

connect_lines(outs, ins) == ConnectOuterLoop(outs, ins, 1)

(***************************************************************************)
(* State                                                                   *)
(***************************************************************************)
\* keyword arguments {pad, width} of the rectangle connection points
Kw(pad, width) == [pad |-> pad, width |-> width]
\* inbound_kw={} / outbound_kw={}: the defaults pad=0.0, width=0.1
DefaultKw == Kw(0, 20)

Call(op, l0, l1, arg, outbound_kw, inbound_kw) ==
    [op |-> op, layer0 |-> l0, layer1 |-> l1, arg |-> arg,
     outbound_kw |-> outbound_kw, inbound_kw |-> inbound_kw]

NoCall == Call("init", "-", "-", 0, DefaultKw, DefaultKw)

LayerIds == DOMAIN layers

\* the (radius, vspace, hspace) a caller gives: the defaults 0.2, 0.1, 0.1,
\* and small nodes in touching rows and wide columns
Styles == {<<40, 20, 20>>, <<20, 0, 40>>}

\* every Layer a caller builds from the given argument sets
Layers(rowsS, colsS, styles, activations, specials, xanchors, yanchors) ==
    {NewLayer(r, c, a, s, x, y, st[1], st[2], st[3]) :
        r \in rowsS, c \in colsS, a \in activations, s \in specials,
        x \in xanchors, y \in yanchors, st \in styles}

\* the values Layer(special=...) is given: the default False, True, and the
\* two tags of the usage example
SpecialArgs == {"False", "True", "input", "output"}

Fresh ==
    /\ built = layers
    /\ call = NoCall
    /\ ret = <<>>
    /\ plotted = <<>>
    /\ raised = "none"

AnchorLimit == 60 + 20 * MaxAnchor

(***************************************************************************)
(* vertical_align, horizontal_align                                        *)
(***************************************************************************)
Ratios == {0, 100}
SpacingArgs == {0, 40}
Pads == {0, 20}
Widths == {0, 20, 200, 400}

\* a mutation of vertical_anchor: relative to y1, which the code reads and
\* does not use
vertical_anchor_from_y1(L0, L1, ratio) ==
    LET y1 == L1.yanchor
        h0 == rect_coords(L0, 0).height
        h1 == rect_coords(L1, 0).height
    IN  y1 - Mul(ratio, h1 - h0)

\* the value vertical_align assigns to layer1.yanchor
vertical_anchor(L0, L1, ratio) ==
    LET y0 == L0.yanchor
        h0 == rect_coords(L0, 0).height
        h1 == rect_coords(L1, 0).height
    IN  y0 - Mul(ratio, h1 - h0)

\* a mutation of vertical_assign: the anchor is assigned to layer0
vertical_assign_layer0(ls, l0, l1, ratio) ==
    [ls EXCEPT ![l0].yanchor = vertical_anchor(ls[l0], ls[l1], ratio)]

\* the assignment of vertical_align
vertical_assign(ls, l0, l1, ratio) ==
    [ls EXCEPT ![l1].yanchor = vertical_anchor(ls[l0], ls[l1], ratio)]

vertical_align(l0, l1, ratio) ==
    /\ layers' = vertical_assign(layers, l0, l1, ratio)
    /\ Abs(layers'[l1].yanchor) <= AnchorLimit
    /\ call' = Call("vertical_align", l0, l1, ratio, DefaultKw, DefaultKw)
    /\ ret' = <<>>
    /\ plotted' = <<>>
    /\ raised' = "none"
    /\ UNCHANGED built

\* a mutation of horizontal_anchor: layer1 is shifted by the spacing
horizontal_anchor_shift(L0, L1, spacing) == L1.xanchor + spacing

\* the value horizontal_align assigns to layer1.xanchor
horizontal_anchor(L0, L1, spacing) == L0.xanchor + spacing

\* the assignment of horizontal_align
horizontal_assign(ls, l0, l1, spacing) ==
    [ls EXCEPT ![l1].xanchor = horizontal_anchor(ls[l0], ls[l1], spacing)]

horizontal_align(l0, l1, spacing) ==
    /\ layers' = horizontal_assign(layers, l0, l1, spacing)
    /\ Abs(layers'[l1].xanchor) <= AnchorLimit
    /\ call' = Call("horizontal_align", l0, l1, spacing, DefaultKw, DefaultKw)
    /\ ret' = <<>>
    /\ plotted' = <<>>
    /\ raised' = "none"
    /\ UNCHANGED built

(***************************************************************************)
(* The queries: each returns a value computed from the layer's fields      *)
(***************************************************************************)
Returns(c, value) ==
    /\ call' = c
    /\ ret' = value
    /\ plotted' = <<>>
    /\ raised' = "none"
    /\ UNCHANGED <<layers, built>>

QueryNodeCenters(l) ==
    Returns(Call("node_centers", l, "-", 0, DefaultKw, DefaultKw),
            node_centers(layers[l]))

QueryRectCoords(l, pad) ==
    Returns(Call("rect_coords", l, "-", 0, Kw(pad, 0), DefaultKw),
            rect_coords(layers[l], pad))

QueryInboundNode(l) ==
    Returns(Call("inbound_node_connections", l, "-", 0, DefaultKw, DefaultKw),
            inbound_node_connections(layers[l]))

QueryOutboundNode(l) ==
    Returns(Call("outbound_node_connections", l, "-", 0, DefaultKw, DefaultKw),
            outbound_node_connections(layers[l]))

QueryInboundRect(l, pad, width) ==
    Returns(Call("inbound_rect_connections", l, "-", 0, DefaultKw, Kw(pad, width)),
            inbound_rect_connections(layers[l], pad, width))

QueryOutboundRect(l, pad, width) ==
    Returns(Call("outbound_rect_connections", l, "-", 0, Kw(pad, width), DefaultKw),
            outbound_rect_connections(layers[l], pad, width))

(***************************************************************************)
(* The calls that draw                                                     *)
(***************************************************************************)
Draws(c, drawn) ==
    /\ call' = c
    /\ ret' = <<>>
    /\ plotted' = drawn.plotted
    /\ raised' = drawn.raised
    /\ UNCHANGED <<layers, built>>

connect_nodes_to_rect(l0, l1, inbound_kw) ==
    Draws(Call("connect_nodes_to_rect", l0, l1, 0, DefaultKw, inbound_kw),
          [plotted |-> connect_lines(
                           outbound_node_connections(layers[l0]),
                           inbound_rect_connections(layers[l1], inbound_kw.pad, inbound_kw.width)),
           raised |-> "none"])

connect_nodes_to_nodes(l0, l1) ==
    Draws(Call("connect_nodes_to_nodes", l0, l1, 0, DefaultKw, DefaultKw),
          [plotted |-> connect_lines(
                           outbound_node_connections(layers[l0]),
                           inbound_node_connections(layers[l1])),
           raised |-> "none"])

connect_rect_to_nodes(l0, l1, outbound_kw) ==
    Draws(Call("connect_rect_to_nodes", l0, l1, 0, outbound_kw, DefaultKw),
          [plotted |-> connect_lines(
                           outbound_rect_connections(layers[l0], outbound_kw.pad, outbound_kw.width),
                           inbound_node_connections(layers[l1])),
           raised |-> "none"])

connect_rect_to_rect(l0, l1, outbound_kw, inbound_kw) ==
    Draws(Call("connect_rect_to_rect", l0, l1, 0, outbound_kw, inbound_kw),
          [plotted |-> connect_lines(
                           outbound_rect_connections(layers[l0], outbound_kw.pad, outbound_kw.width),
                           inbound_rect_connections(layers[l1], inbound_kw.pad, inbound_kw.width)),
           raised |-> "none"])

draw_nodes(l) ==
    Draws(Call("draw_nodes", l, "-", 0, DefaultKw, DefaultKw),
          LayerDrawNodes(layers[l]))

\* arg is 1 for draw_activation=True (the default), 0 for False
draw_rect(l, pad, draw_activation) ==
    Draws(Call("draw_rect", l, "-", IF draw_activation THEN 1 ELSE 0, Kw(pad, 0), DefaultKw),
          LayerDrawRect(layers[l], pad, draw_activation))

(***************************************************************************)
(* Specifications.  The caller builds its layers, then calls the module's  *)
(* functions in any order with any of the given arguments.                 *)
(***************************************************************************)
KwArgs == {DefaultKw, Kw(20, 0)}

Align(ratios, spacings) ==
    \/ \E l0, l1 \in LayerIds, ratio \in ratios : vertical_align(l0, l1, ratio)
    \/ \E l0, l1 \in LayerIds, spacing \in spacings : horizontal_align(l0, l1, spacing)

Query(pads, widths) ==
    \/ \E l \in LayerIds : QueryNodeCenters(l)
    \/ \E l \in LayerIds, pad \in pads : QueryRectCoords(l, pad)
    \/ \E l \in LayerIds : QueryInboundNode(l)
    \/ \E l \in LayerIds : QueryOutboundNode(l)
    \/ \E l \in LayerIds, pad \in pads, width \in widths : QueryInboundRect(l, pad, width)
    \/ \E l \in LayerIds, pad \in pads, width \in widths : QueryOutboundRect(l, pad, width)

Connect(kws) ==
    \/ \E l0, l1 \in LayerIds, kw \in kws : connect_nodes_to_rect(l0, l1, kw)
    \/ \E l0, l1 \in LayerIds : connect_nodes_to_nodes(l0, l1)
    \/ \E l0, l1 \in LayerIds, kw \in kws : connect_rect_to_nodes(l0, l1, kw)
    \/ \E l0, l1 \in LayerIds, kwo, kwi \in kws : connect_rect_to_rect(l0, l1, kwo, kwi)

Draw(pads) ==
    \/ \E l \in LayerIds : draw_nodes(l)
    \/ \E l \in LayerIds, pad \in pads, da \in BOOLEAN : draw_rect(l, pad, da)

\* Spec: two layers of every shape, built at the default anchor and aligned
\* against each other (and against themselves) in any order
Init ==
    /\ layers \in [{"h1", "h2"} ->
          Layers(1..MaxRows, 1..MaxCols, Styles, {"sigmoid"}, {"False"}, {0}, {0})]
    /\ Fresh

Next == Align(Ratios, SpacingArgs)

Spec == Init /\ [][Next]_vars

\* SpecQuery: one layer of every shape, built at any of four anchors, and
\* queried for its derived geometry
InitQuery ==
    /\ layers \in [{"h1"} ->
          Layers(1..MaxRows, 1..MaxCols, Styles, {"sigmoid"}, {"False"}, {0, 200}, {0, -40})]
    /\ Fresh

NextQuery == Query(Pads, Widths)

SpecQuery == InitQuery /\ [][NextQuery]_vars

\* SpecConnect: two layers of every shape, the second built at either of
\* two anchors, connected in both directions and to themselves
InitConnect ==
    /\ \E L1 \in Layers(1..MaxConnectRows, 1..MaxCols, Styles, {"sigmoid"}, {"False"}, {0}, {0}),
          L2 \in Layers(1..MaxConnectRows, 1..MaxCols, Styles, {"sigmoid"}, {"False"}, {0, 200}, {0}) :
          layers = [l \in {"h1", "h2"} |-> IF l = "h1" THEN L1 ELSE L2]
    /\ Fresh

NextConnect == Connect(KwArgs)

SpecConnect == InitConnect /\ [][NextConnect]_vars

\* SpecDraw: one layer of every shape, activation and special marker, drawn
\* as nodes and as a rectangle
InitDraw ==
    /\ layers \in [{"h1"} ->
          Layers(1..MaxRows, 1..MaxCols, Styles, ActivationArgs, SpecialArgs, {0}, {0})]
    /\ Fresh

NextDraw == Draw(Pads)

SpecDraw == InitDraw /\ [][NextDraw]_vars

\* SpecDegenerate: one layer whose rows and columns may be zero or negative
InitDegenerate ==
    /\ layers \in [{"h1"} ->
          Layers((0 - 1)..MaxRows, (0 - 1)..MaxCols, Styles, {"sigmoid"}, {"False"},
                 {0, 200}, {0, -40})]
    /\ Fresh

NextDegenerate ==
    \/ \E l \in LayerIds : QueryNodeCenters(l)
    \/ \E l \in LayerIds, pad \in Pads : QueryRectCoords(l, pad)

SpecDegenerate == InitDegenerate /\ [][NextDegenerate]_vars

\* SpecFrame: the three kinds of layer of the usage example (an input layer,
\* a hidden layer of several rows, an output layer), with every function of
\* the module called on them
InitFrame ==
    /\ \E rows \in 1..MaxRows :
          layers = [l \in {"state", "h1", "out"} |->
                      CASE l = "state" -> NewLayer(1, 1, "None", "input", 0, 0, 40, 20, 20)
                        [] l = "h1" -> NewLayer(rows, 1, "sigmoid", "False", 0, 0, 40, 20, 20)
                        [] l = "out" -> NewLayer(1, 1, "sigmoid", "False", 0, 0, 40, 20, 20)]
    /\ Fresh

NextFrame ==
    \/ Align({100}, {40})
    \/ Query({0}, {20})
    \/ Connect({DefaultKw})
    \/ Draw({0})

SpecFrame == InitFrame /\ [][NextFrame]_vars

(***************************************************************************)
(* Properties                                                              *)
(***************************************************************************)
\* the data model of a Layer: counts >= 1, radius > 0, spacing >= 0
DataModel(L) ==
    /\ L.rows >= 1 /\ L.columns >= 1
    /\ L.radius > 0 /\ L.vspace >= 0 /\ L.hspace >= 0

\* every product the model forms is exact
ExactArithmetic ==
    \A l \in LayerIds :
        /\ layers[l].radius % 5 = 0
        /\ \A pad \in Pads : /\ rect_coords(layers[l], pad).height % 20 = 0
                             /\ rect_coords(layers[l], pad).width % 2 = 0

\* C1: node_centers of a layer with rows >= 1 and columns >= 1 returns
\* rows x columns points, column-major: the point of column c and row r is
\* (xanchor + radius + c(2 radius + hspace), yanchor - radius - r(2 radius + vspace)),
\* so the first `rows` points share their x and the first point is
\* (xanchor + radius, yanchor - radius)
C1_NodeCentersColumnMajor ==
    call.op = "node_centers" =>
        LET L == layers[call.layer0]
        IN  (L.rows >= 1 /\ L.columns >= 1) =>
              /\ Len(ret) = L.rows * L.columns
              /\ \A c \in 0..(L.columns - 1), r \in 0..(L.rows - 1) :
                    ret[c * L.rows + r + 1] =
                        <<L.xanchor + L.radius + c * (2 * L.radius + L.hspace),
                          L.yanchor - L.radius - r * (2 * L.radius + L.vspace)>>
              /\ \A i \in 1..L.rows : ret[i][1] = ret[1][1]
              /\ ret[1] = <<L.xanchor + L.radius, L.yanchor - L.radius>>

\* node_centers was called on a layer of several rows and columns built
\* away from the origin
C1_Witness ==
    /\ call.op = "node_centers"
    /\ layers[call.layer0].rows = 2 /\ layers[call.layer0].columns = 2
    /\ layers[call.layer0].xanchor # 0 /\ layers[call.layer0].yanchor # 0
    /\ layers[call.layer0].vspace # layers[call.layer0].hspace
    /\ Len(ret) = 4

\* C2: after vertical_align(layer0, layer1, ratio), layer1.yanchor is
\* layer0.yanchor - ratio x (height1 - height0) for the two rectangle
\* heights; with ratio 0.5 the vertical midpoints of the two rectangles
\* coincide, with ratio 0 the two yanchors are equal, and with ratio 0.5
\* and equal heights the two yanchors are equal
C2_VerticalAlign ==
    call.op = "vertical_align" =>
        LET L0 == layers[call.layer0]
            L1 == layers[call.layer1]
            h0 == rect_coords(L0, 0).height
            h1 == rect_coords(L1, 0).height
        IN  /\ L1.yanchor - L0.yanchor = -Mul(call.arg, h1 - h0)
            /\ call.arg = 100 => 2 * L1.yanchor + h1 = 2 * L0.yanchor + h0
            /\ call.arg = 0 => L1.yanchor = L0.yanchor
            /\ (call.arg = 100 /\ h1 = h0) => L1.yanchor = L0.yanchor

\* vertical_align with ratio 0.5 centred a layer on a taller one that had
\* itself been moved before
C2_Witness ==
    /\ call.op = "vertical_align" /\ call.arg = 100
    /\ call.layer0 # call.layer1
    /\ layers[call.layer0].yanchor # 0
    /\ rect_coords(layers[call.layer0], 0).height < rect_coords(layers[call.layer1], 0).height
    /\ layers[call.layer1].yanchor < layers[call.layer0].yanchor

\* C3: horizontal_align(layer0, layer1, spacing) leaves layer1.xanchor at
\* layer0.xanchor + spacing whatever layer1.xanchor was, and the same call
\* repeated on two distinct layers changes nothing more
C3_HorizontalAlign ==
    [][ call'.op = "horizontal_align" =>
          /\ layers'[call'.layer1].xanchor = layers[call'.layer0].xanchor + call'.arg
          /\ (call = call' /\ call.layer0 # call.layer1) => layers' = layers ]_vars

\* horizontal_align moved a layer that was not at the origin to the left
\* layer's anchor plus a non-zero spacing
C3_Witness ==
    /\ call.op = "horizontal_align" /\ call.arg = 40
    /\ call.layer0 # call.layer1
    /\ layers[call.layer0].xanchor = 40
    /\ layers[call.layer1].xanchor = 80

\* C8: in every state the alignment calls reach, rect_coords(pad) of a layer
\* of the data model has, for every pad >= 0, height <= 0, width > 0, the
\* top-left corner (xanchor - pad, yanchor + pad) of the current anchor, and
\* the width and height it had before any alignment
C8_RectCoords ==
    \A l \in LayerIds, pad \in Pads :
        DataModel(layers[l]) =>
            LET coords == rect_coords(layers[l], pad)
                before == rect_coords(built[l], pad)
            IN  /\ coords.height <= 0
                /\ coords.width > 0
                /\ coords.xy = <<layers[l].xanchor - pad, layers[l].yanchor + pad>>
                /\ coords.width = before.width
                /\ coords.height = before.height

\* both alignments have moved a layer of several rows, so that its padded
\* rectangle starts left of and above the moved anchor
C8_Witness ==
    \E l \in LayerIds :
        /\ call.op \in {"vertical_align", "horizontal_align"} /\ call.layer1 = l
        /\ layers[l].xanchor > 0 /\ layers[l].yanchor > 0
        /\ built[l].xanchor = 0 /\ built[l].yanchor = 0
        /\ layers[l].rows = 2
        /\ rect_coords(layers[l], 20).xy = <<layers[l].xanchor - 20, layers[l].yanchor + 20>>
        /\ rect_coords(layers[l], 20).height < rect_coords(layers[l], 0).height

\* C10: every node circle of a layer of the data model lies inside the
\* layer's pad-0 rectangle, touching its top and left at the first node and
\* its bottom and right at the last, and so does every inbound and outbound
\* node connection point
C10_NodesInsideRect ==
    \A l \in LayerIds :
        DataModel(layers[l]) =>
            LET L == layers[l]
                coords == rect_coords(L, 0)
                centers == node_centers(L)
                first == centers[1]
                last == centers[Len(centers)]
                ins == inbound_node_connections(L)
                outs == outbound_node_connections(L)
                Inside(p, margin) ==
                    /\ coords.xy[1] <= p[1] - margin
                    /\ p[1] + margin <= coords.xy[1] + coords.width
                    /\ coords.xy[2] + coords.height <= p[2] - margin
                    /\ p[2] + margin <= coords.xy[2]
            IN  /\ Len(centers) >= 1
                /\ \A i \in 1..Len(centers) : Inside(centers[i], L.radius)
                /\ first[1] - L.radius = coords.xy[1]
                /\ first[2] + L.radius = coords.xy[2]
                /\ last[1] + L.radius = coords.xy[1] + coords.width
                /\ last[2] - L.radius = coords.xy[2] + coords.height
                /\ Len(ins) = Len(centers) /\ Len(outs) = Len(centers)
                /\ \A i \in 1..Len(centers) :
                      /\ ins[i] = <<centers[i][1] - Mul(40, L.radius), centers[i][2]>>
                      /\ outs[i] = <<centers[i][1] + Mul(40, L.radius), centers[i][2]>>
                      /\ Inside(ins[i], 0)
                      /\ Inside(outs[i], 0)

\* a layer of several rows and columns, with spacing, was aligned both ways
C10_Witness ==
    \E l \in LayerIds :
        /\ call.op \in {"vertical_align", "horizontal_align"} /\ call.layer1 = l
        /\ layers[l].rows = 2 /\ layers[l].columns = 2
        /\ layers[l].vspace > 0
        /\ layers[l].xanchor # 0 /\ layers[l].yanchor # 0

\* the frame of one alignment step: `anchor` is the one field the call may
\* change, and only in layer1
AlignFrame(anchor) ==
    /\ \A l \in LayerIds \ {call'.layer1} : layers'[l] = layers[l]
    /\ \A f \in (DOMAIN layers[call'.layer1]) \ {anchor} :
          layers'[call'.layer1][f] = layers[call'.layer1][f]

\* C4 as stated: vertical_align changes nothing but layer1.yanchor and
\* horizontal_align nothing but layer1.xanchor, every field of layer0 (the
\* first argument) and every layer not passed is unchanged, and no other
\* call changes any layer field
C4_AsStated ==
    [][ /\ call'.op = "vertical_align" =>
              AlignFrame("yanchor") /\ layers'[call'.layer0] = layers[call'.layer0]
        /\ call'.op = "horizontal_align" =>
              AlignFrame("xanchor") /\ layers'[call'.layer0] = layers[call'.layer0]
        /\ call'.op \notin {"vertical_align", "horizontal_align"} => layers' = layers ]_vars

\* C4 amended: vertical_align changes nothing but layer1.yanchor and
\* horizontal_align nothing but layer1.xanchor; every field of layer0 is
\* unchanged when layer0 is another layer than layer1, and so is every layer
\* not passed; no other call changes any layer field
C4_OnlySecondLayerMutated ==
    [][ /\ call'.op = "vertical_align" =>
              /\ AlignFrame("yanchor")
              /\ call'.layer0 # call'.layer1 => layers'[call'.layer0] = layers[call'.layer0]
        /\ call'.op = "horizontal_align" =>
              /\ AlignFrame("xanchor")
              /\ call'.layer0 # call'.layer1 => layers'[call'.layer0] = layers[call'.layer0]
        /\ call'.op \notin {"vertical_align", "horizontal_align"} => layers' = layers ]_vars

\* vertical_align has moved the output layer onto the taller hidden layer
\* after the hidden layer was moved horizontally, the input layer untouched
C4_Witness ==
    /\ call.op = "vertical_align"
    /\ call.layer0 = "h1" /\ call.layer1 = "out"
    /\ layers["h1"].rows = 2
    /\ layers["h1"].xanchor = 40 /\ layers["h1"].yanchor = 0
    /\ layers["out"].yanchor # 0 /\ layers["out"].xanchor = 0
    /\ layers["state"].xanchor = 0 /\ layers["state"].yanchor = 0

\* the number of nodes of a layer
NodeCount(L) == L.rows * L.columns

\* C5: each connector enumerator plots one line from p to q for every pair
\* (p, q) of layer0's outbound and layer1's inbound connection points, in
\* the order of the nested loops, none skipped and none dropped: n0 x n1
\* lines node to node, 2 x n0 node to rect, 2 x n1 rect to node, 4 rect to
\* rect
C5_CartesianProduct ==
    call.op \in {"connect_nodes_to_nodes", "connect_nodes_to_rect",
                 "connect_rect_to_nodes", "connect_rect_to_rect"} =>
        LET L0 == layers[call.layer0]
            L1 == layers[call.layer1]
            fromNodes == call.op \in {"connect_nodes_to_nodes", "connect_nodes_to_rect"}
            toNodes == call.op \in {"connect_nodes_to_nodes", "connect_rect_to_nodes"}
            outs == IF fromNodes
                    THEN outbound_node_connections(L0)
                    ELSE outbound_rect_connections(L0, call.outbound_kw.pad, call.outbound_kw.width)
            ins == IF toNodes
                   THEN inbound_node_connections(L1)
                   ELSE inbound_rect_connections(L1, call.inbound_kw.pad, call.inbound_kw.width)
            n0 == IF fromNodes THEN NodeCount(L0) ELSE 2
            n1 == IF toNodes THEN NodeCount(L1) ELSE 2
        IN  /\ raised = "none"
            /\ Len(outs) = n0 /\ Len(ins) = n1
            /\ Len(plotted) = n0 * n1
            /\ \A i \in 1..n0, j \in 1..n1 :
                  plotted[(i - 1) * n1 + j] =
                      [kind |-> "line",
                       xs |-> <<outs[i][1], ins[j][1]>>,
                       ys |-> <<outs[i][2], ins[j][2]>>]

\* a layer of 2 nodes was connected node to node to a layer of 3 nodes: 6 lines
C5_Witness ==
    /\ call.op = "connect_nodes_to_nodes"
    /\ NodeCount(layers[call.layer0]) = 2
    /\ NodeCount(layers[call.layer1]) = 3
    /\ Len(plotted) = 6

\* C9: inbound_rect_connections and outbound_rect_connections return two
\* points whatever the rows and columns; both inbound points are on the left
\* edge xanchor - pad, both outbound points on the right edge, left edge +
\* rectangle width; the two y are top_y + (0.5 - width/2) height and
\* top_y + (0.5 + width/2) height of rect_coords(pad); for 0 <= width <= 1
\* both lie within the rectangle's vertical extent, symmetric about its middle
C9_RectConnections ==
    call.op \in {"inbound_rect_connections", "outbound_rect_connections"} =>
        LET L == layers[call.layer0]
            inbound == call.op = "inbound_rect_connections"
            kw == IF inbound THEN call.inbound_kw ELSE call.outbound_kw
            coords == rect_coords(L, kw.pad)
            left == L.xanchor - kw.pad
            top == coords.xy[2]
        IN  /\ Len(ret) = 2
            /\ inbound => ret[1][1] = left /\ ret[2][1] = left
            /\ ~inbound => ret[1][1] = left + coords.width /\ ret[2][1] = left + coords.width
            /\ 200 * (ret[1][2] - top) = (100 - kw.width \div 2) * coords.height
            /\ 200 * (ret[2][2] - top) = (100 + kw.width \div 2) * coords.height
            /\ (0 <= kw.width /\ kw.width <= 200) =>
                  /\ top + coords.height <= ret[2][2]
                  /\ ret[2][2] <= ret[1][2]
                  /\ ret[1][2] <= top
                  /\ ret[1][2] + ret[2][2] = 2 * top + coords.height

\* outbound_rect_connections with the default spread 0.1 was called on a
\* padded layer of several rows and columns built away from the origin
C9_Witness ==
    /\ call.op = "outbound_rect_connections"
    /\ call.outbound_kw = Kw(20, 20)
    /\ layers[call.layer0].rows = 2 /\ layers[call.layer0].columns = 2
    /\ layers[call.layer0].xanchor # 0 /\ layers[call.layer0].yanchor # 0
    /\ ret[1][2] > ret[2][2]
    /\ ret[1][1] > layers[call.layer0].xanchor

\* an activation argument dispacth_activation does not recognise
Unrecognised(s) == ~Callable(s) /\ s \notin {"relu", "sigmoid", "linear"}

\* C6: an unrecognised activation name resolves to the absent function, and
\* draw_nodes on a non-special layer and draw_rect with draw_activation
\* complete without raising, with the outline drawn and no curve
C6_AbsentActivationSkipsCurve ==
    LET L == layers[call.layer0]
    IN  (/\ call.op \in {"draw_nodes", "draw_rect"}
         /\ Unrecognised(L.activation_str)
         /\ call.op = "draw_nodes" => ~Truthy(L.special)
         /\ call.op = "draw_rect" => call.arg = 1)
        => /\ L.activation = "None"
           /\ raised = "none"
           /\ \A i \in 1..Len(plotted) : plotted[i].kind \in {"circle", "rect"}
           /\ call.op = "draw_nodes" => Len(plotted) = NodeCount(L)
           /\ call.op = "draw_rect" => Len(plotted) = 1

\* C7: a layer whose rows or columns is zero or negative raises nothing,
\* has no node centers and a pad-0 rectangle of area zero
C7_DegenerateLayer ==
    LET L == layers[call.layer0]
    IN  (/\ call.op \in {"node_centers", "rect_coords"}
         /\ (L.rows <= 0 \/ L.columns <= 0)
         /\ L.radius > 0 /\ L.vspace >= 0 /\ L.hspace >= 0)
        => /\ raised = "none"
           /\ call.op = "node_centers" => ret = <<>>
           /\ (call.op = "rect_coords" /\ call.outbound_kw.pad = 0)
                 => ret.width * ret.height = 0
====
